---- MODULE Spec2Model ----
(***************************************************************************)
(* A state-machine model of the realtime-eval pipeline                     *)
(* (src/realtime_eval): main -> load_feeds -> process_articles             *)
(* (fetch_feed, is_within_24_hours, format_date, extract_article_content,  *)
(* generate_questions_and_answers) -> evaluate_questions -> save_dataset.  *)
(*                                                                         *)
(* Time is counted in hours.  A timestamp string is the record             *)
(*   [form, wall, off]: the textual form it is written in, the wall-clock  *)
(* reading it spells and, for the numeric-offset form, the UTC offset it   *)
(* spells.  An article body is [lead, core, trail]: the lengths of its     *)
(* leading whitespace, of the text between its first and last              *)
(* non-whitespace character, and of its trailing whitespace.               *)
(***************************************************************************)
EXTENDS Integers, Sequences, FiniteSets, TLC

VARIABLES
    now,              \* the UTC clock read by datetime.now / datetime.utcnow
    apiKey,           \* os.getenv("GROQ_API_KEY") is set
    feedsFile,        \* what open('feeds.json') / json.load finds
    web,              \* the feed snapshot: what each feed url and article link serves
    test,             \* main(test=...)
    pc,               \* position of the main thread
    exc,              \* the uncaught exception that ended the run ("" when none)
    feeds,            \* load_feeds(): the feed ids, in file order
    fi,               \* index in feeds of the feed being processed
    entries,          \* feed.entries of the current feed, after the recency filter
    ei,               \* enumerate index i of the entry loop (0-based)
    date,             \* format_date(published) of the current entry
    worker,           \* the download worker of the ThreadPoolExecutor
    timedOut,         \* future.result(timeout) raised concurrent.futures.TimeoutError
    content,          \* the value returned by extract_article_content (<<>> is None)
    articles,         \* process_articles' candidate list
    ev_i,             \* evaluate_questions' loop variable i
    offset,           \* evaluate_questions' running offset
    indices_to_keep,  \* evaluate_questions' accumulated indices
    accepted,         \* the list returned by process_articles
    dataset,          \* the content of news_questions.json
    written,          \* number of times news_questions.json was written
    console,          \* the last message printed on the console ("" when none)
    fetchLog,         \* history: outcome of every fetch_feed call so far
    entryFailed,      \* history: some entry's extraction or generation has failed
    evalLog,          \* history: every evaluation request and how it ended
    loaded,           \* history: load_feeds has been called
    extractLog,       \* history: every extract_article_content call and its result
    genLog,           \* history: every generation request and what it added
    evalCalls,        \* history: number of calls of evaluate_questions
    rq,               \* recency harness: the timestamp string passed in
    rfun,             \* recency harness: which filter was called
    rres              \* recency harness: the value returned (<<>> before the call)

vars == <<now, apiKey, feedsFile, web, test, pc, exc, feeds, fi, entries, ei,
          date, worker, timedOut, content, articles, ev_i, offset,
          indices_to_keep, accepted, dataset, written, console, fetchLog,
          entryFailed, evalLog, loaded, extractLog, genLog, evalCalls,
          rq, rfun, rres>>

pipeVars == <<apiKey, feedsFile, web, test, pc, exc, feeds, fi, entries, ei,
              date, worker, timedOut, content, articles, ev_i, offset,
              indices_to_keep, accepted, dataset, written, console, fetchLog,
              entryFailed, evalLog, loaded, extractLog, genLog, evalCalls>>

recVars == <<rq, rfun, rres>>

(***************************************************************************)
(* Bounds of the model and constants of the program                        *)
(***************************************************************************)
\* the clock reading of the run, in hours
Now0 == 1000
\* how far before now-7d and after now the recency harness draws timestamps
Slack == 3
\* the most question/answer pairs a generation reply carries
MaxPairs == 3

\* timedelta(days=1), in hours
DAY_HOURS == 24
\* timedelta(days=7), in hours
WEEK_HOURS == 168
\* range(0, len(articles), 5) and articles[i:i+5]
BATCH == 5
\* offset += 5
OFFSET_STEP == 5
\* max_articles = 5 if test else None
MAX_ARTICLES == 5
\* min_content_length: int = 500
MIN_CONTENT_LENGTH == 500

(***************************************************************************)
(* feed_handler.py: the date formats and the recency filter                *)
(***************************************************************************)
\* "%a, %d %b %Y %H:%M:%S %z" and "%a, %d %b %Y %H:%M:%S GMT", in list order
date_formats == <<"rfc822z", "rfc822gmt">>

\* the textual forms a published string can have: the two accepted ones, an
\* ISO-8601 string, and the default 'No date' of entry.get('published', ...)
Forms == {"rfc822z", "rfc822gmt", "iso8601", "nodate"}

\* datetime.strptime(date_str, date_format): <<>> is ValueError.  "%z" yields
\* an aware datetime carrying the offset, the literal "GMT" a naive one.
strptime(s, fmt) ==
    IF s.form # fmt THEN <<>>
    ELSE IF fmt = "rfc822z"
         THEN <<[wall |-> s.wall, aware |-> TRUE, off |-> s.off]>>
         ELSE <<[wall |-> s.wall, aware |-> FALSE, off |-> 0]>>

\* datetime.now(date.tzinfo) if date.tzinfo else datetime.utcnow(): the wall
\* clock of "now" in the zone of the parsed date (UTC for a naive one)
now_for(d) == IF d.aware THEN now + d.off ELSE now

\* faulty variant of within: >= in place of >
within_ge(d, window) == d.wall >= now_for(d) - window

\* date > now - timedelta(days=...): both datetimes are in the same zone, so
\* Python compares their wall clocks
within(d, window) == d.wall > now_for(d) - window

\* the for/try/continue loop shared by is_within_24_hours and is_within_7_days,
\* from format number k on
RECURSIVE within_from(_, _, _)
within_from(s, k, window) ==
    IF k > Len(date_formats) THEN FALSE
    ELSE LET d == strptime(s, date_formats[k])
         IN  IF d = <<>> THEN within_from(s, k + 1, window)
             ELSE within(d[1], window)

is_within_24_hours(s) == within_from(s, 1, DAY_HOURS)

is_within_7_days(s) == within_from(s, 1, WEEK_HOURS)

\* format_date: strftime("%Y-%m-%d %H:%M:%S") of the first format that parses
\* (the offset is not printed); <<>> is the ValueError raised when none does
RECURSIVE format_from(_, _)
format_from(s, k) ==
    IF k > Len(date_formats) THEN <<>>
    ELSE LET d == strptime(s, date_formats[k])
         IN  IF d = <<>> THEN format_from(s, k + 1) ELSE <<d[1].wall>>

\* faulty variant of format_date: only the first format is tried
format_date_first_only(s) ==
    LET d == strptime(s, date_formats[1])
    IN  IF d = <<>> THEN <<>> ELSE <<d[1].wall>>

format_date(s) == format_from(s, 1)

(***************************************************************************)
(* The feed snapshot                                                       *)
(***************************************************************************)
\* a published string in the numeric-offset form: the instant h hours before
\* Now0, written in the zone off hours east of UTC
TZ(h, off) == [form |-> "rfc822z", wall |-> Now0 - h + off, off |-> off]

\* a published string in the "GMT" form: the instant h hours before Now0
GMT(h) == [form |-> "rfc822gmt", wall |-> Now0 - h, off |-> 0]

\* entry.get('published', 'No date') of an entry without a published date
NoDate == [form |-> "nodate", wall |-> 0, off |-> 0]

Body(lead, core, trail) == [lead |-> lead, core |-> core, trail |-> trail]

Long == Body(2, 640, 1)

Entry(f, j, published, body) ==
    [link |-> <<f, j>>, published |-> published, body |-> body]

\* one feed, three entries stamped now, now-2h and now-30h
WebThree == << <<Entry(1, 1, TZ(0, 0), Long), Entry(1, 2, TZ(2, 0), Long),
                 Entry(1, 3, TZ(30, 0), Long)>> >>

\* two feeds: bodies around the minimum length, an entry without a date, an
\* entry exactly 24 hours old
WebEdges == << <<Entry(1, 1, TZ(1, 2), Body(1, 499, 0)), Entry(1, 2, NoDate, Long),
                 Entry(1, 3, GMT(23), Body(0, 500, 2))>>,
               <<Entry(2, 1, TZ(24, 0), Long), Entry(2, 2, TZ(5, -5), Long)>> >>

\* two feeds of two recent entries each
WebFour == << <<Entry(1, 1, TZ(1, 0), Long), Entry(1, 2, GMT(2), Long)>>,
              <<Entry(2, 1, TZ(3, 2), Long), Entry(2, 2, TZ(4, 0), Long)>> >>

\* an empty feed, then a feed of one entry
WebEmptyFirst == << <<>>, <<Entry(2, 1, TZ(0, 0), Long)>> >>

\* one feed of six recent entries, the first four too short to keep
WebSix == << <<Entry(1, 1, TZ(1, 0), Body(0, 10, 0)), Entry(1, 2, TZ(1, 0), Body(0, 10, 0)),
               Entry(1, 3, TZ(1, 0), Body(0, 10, 0)), Entry(1, 4, TZ(1, 0), Body(0, 10, 0)),
               Entry(1, 5, TZ(1, 0), Long), Entry(1, 6, TZ(1, 0), Long)>> >>

Webs == {WebThree, WebEdges, WebFour, WebEmptyFirst, WebSix}

\* what feeds.json can hold: no file, text that is not JSON, a JSON object
\* without the "feeds" key, an empty feed list, a list of feeds
FeedsFiles == {"missing", "invalid", "nokey", "empty", "ok"}

(***************************************************************************)
(* content_extractor.py                                                    *)
(***************************************************************************)
\* len(text)
len(text) == text.lead + text.core + text.trail

\* text.strip()
strip(text) == [lead |-> 0, core |-> text.core, trail |-> 0]

\* faulty variant of article_content: the length test on the untrimmed text
article_content_unstripped(text) ==
    IF len(text) < MIN_CONTENT_LENGTH THEN <<>> ELSE <<strip(text)>>

\* content = article.text.strip(); None (<<>>) when shorter than
\* min_content_length, else the content
article_content(text) ==
    LET c == strip(text)
    IN  IF len(c) < MIN_CONTENT_LENGTH THEN <<>> ELSE <<c>>

(***************************************************************************)
(* question_generator.py: the replies of the LLM backend and their parsing *)
(***************************************************************************)
Keys == {"question", "answer", "answer_context"}

\* the string "SKIP", and the text of the k-th question of a reply
SKIP == [skip |-> TRUE, n |-> 0]

Q(k) == [skip |-> FALSE, n |-> k]

\* elements of a qa_pairs list: a complete pair, the all-SKIP pair, a pair
\* lacking one key, an element that is not a JSON object
OkPair(k) == [dict |-> TRUE, keys |-> Keys, question |-> Q(k)]

SkipPair == [dict |-> TRUE, keys |-> Keys, question |-> SKIP]

Lacking(k, key) == [dict |-> TRUE, keys |-> Keys \ {key}, question |-> Q(k)]

NotADict == [dict |-> FALSE, keys |-> {}, question |-> SKIP]

OkPairs(n) == [k \in 1..n |-> OkPair(k)]

\* replies to the generation request: the call raises; the message content is
\* empty; it is not JSON; it is a JSON array; it is an object without
\* "qa_pairs"; it is an object with the given qa_pairs list
GenFail == {[kind |-> k, pairs |-> <<>>] : k \in {"raise", "empty", "nonjson", "array", "nopairs"}}

GenLists ==
    {OkPairs(n) : n \in {1, MaxPairs}}
    \cup { <<>>, <<SkipPair>>, <<NotADict>>, <<OkPair(1), SkipPair>>,
           <<OkPair(1), Lacking(2, "answer")>>, <<Lacking(1, "question")>> }

GenReplies == GenFail \cup {[kind |-> "pairs", pairs |-> l] : l \in GenLists}

\* generate_questions_and_answers: the qa_pairs list, or <<>> for None
generate_questions_and_answers(reply) ==
    IF reply.kind \in {"raise", "empty", "nonjson", "array"} THEN <<>>
    ELSE LET qa_pairs == IF reply.kind = "nopairs" THEN <<>> ELSE reply.pairs
         IN  IF qa_pairs = <<>> THEN <<>>
             ELSE IF ~qa_pairs[1].dict THEN <<>>
             ELSE IF "question" \in qa_pairs[1].keys /\ qa_pairs[1].question = SKIP
                  THEN <<>>
             ELSE qa_pairs

\* Article(title=..., link=..., date=..., content=..., question=..., ...)
Article(entry, d, c, qa_pair) ==
    [link |-> entry.link, date |-> d, content |-> c, question |-> qa_pair.question]

\* the for qa_pair in qa_pairs loop from element k on: the list after the
\* appends, and whether qa_pair['...'] raised (the appends before it stay)
RECURSIVE append_pairs(_, _, _, _, _, _)
append_pairs(arts, qa_pairs, k, entry, d, c) ==
    IF k > Len(qa_pairs) THEN [articles |-> arts, raised |-> FALSE]
    ELSE IF ~qa_pairs[k].dict \/ qa_pairs[k].keys # Keys
         THEN [articles |-> arts, raised |-> TRUE]
    ELSE append_pairs(Append(arts, Article(entry, d, c, qa_pairs[k])),
                      qa_pairs, k + 1, entry, d, c)

\* replies to an evaluation request that make the try block raise: the call
\* raises; the content is not JSON; an element of "indices" is not a number
EvalFailKinds == {"raise", "nonjson", "badelem"}

\* the "indices" lists of the replies that parse: none, in order, out of
\* order, repeated, beyond a short batch, negative, at the batch size
EvalIndexLists == { <<>>, <<0>>, <<0, 2>>, <<1, 0>>, <<0, 0>>, <<4>>, <<-1>>, <<BATCH>> }

EvalReplies ==
    {[kind |-> k, indices |-> <<>>] : k \in EvalFailKinds \cup {"noindices"}}
    \cup {[kind |-> "indices", indices |-> l] : l \in EvalIndexLists}

\* result.get('indices', [])
new_indices(reply) == IF reply.kind = "noindices" THEN <<>> ELSE reply.indices

\* [i + offset for i in new_indices_to_keep]
to_global(new, off) == [j \in 1..Len(new) |-> new[j] + off]

\* faulty variant of advance_offset: the offset advanced by the number of indices kept
advance_offset_by_kept(off, new) == off + Len(new)

\* offset += 5
advance_offset(off, new) == off + OFFSET_STEP

\* faulty variant of on_eval_exception: the indices of the earlier batches are returned
on_eval_exception_partial(kept) == kept

\* except Exception: return []
on_eval_exception(kept) == <<>>

\* list[i] of Python: i counts from the end when negative; IndexError outside
\* -len(list) .. len(list)-1
py_valid(list, i) == -Len(list) <= i /\ i < Len(list)

py_at(list, i) == IF i >= 0 THEN list[i + 1] ELSE list[Len(list) + i + 1]

\* [articles[i] for i in indices_to_keep]
select(arts, kept) == [j \in 1..Len(kept) |-> py_at(arts, kept[j])]

\* faulty variant of dataset_of: the ids counted from 1
dataset_of_one_based(arts) ==
    [j \in 1..Len(arts) |-> [id |-> j, article |-> arts[j]]]

\* save_dataset: the records, each with id = its enumerate index
dataset_of(arts) == [j \in 1..Len(arts) |-> [id |-> j - 1, article |-> arts[j]]]

(***************************************************************************)
(* feed_handler.py: load_feeds and fetch_feed                              *)
(***************************************************************************)
\* load_feeds: FileNotFoundError and JSONDecodeError are caught and give [];
\* json.load(f)['feeds'] of an object without the key raises KeyError, which
\* the except clause does not name
load_feeds ==
    CASE feedsFile \in {"missing", "invalid"} -> [raised |-> FALSE, feeds |-> <<>>]
      [] feedsFile = "nokey" -> [raised |-> TRUE, feeds |-> <<>>]
      [] feedsFile = "empty" -> [raised |-> FALSE, feeds |-> <<>>]
      [] OTHER -> [raised |-> FALSE, feeds |-> [f \in 1..Len(web) |-> f]]

\* fetch_feed: feedparser.parse(response.content), a dict holding "entries";
\* on requests.RequestException the new, empty feedparser.FeedParserDict()
fetch_feed(f, outcome) ==
    IF outcome = "error" THEN <<>> ELSE [entries |-> web[f]]

\* feed.entries: FeedParserDict.__getattr__ looks the name up as a key and
\* raises AttributeError when the dict does not hold it
has_entries(feed) == "entries" \in DOMAIN feed

\* the pc after the feed loop has advanced to feed number f
after_feed(f) == IF f > Len(feeds) THEN "evaluate" ELSE "fetch"

\* faulty variant of api_key_missing: the credential is never tested
api_key_missing_never == FALSE

\* main: api_key = os.getenv("GROQ_API_KEY"); "if not api_key:"
api_key_missing == ~apiKey

\* how the interpreter ends: main returns (by "return" or by falling off its
\* end) and the script ends with status 0, there is no sys.exit; an uncaught
\* exception ends it with status 1; <<>> while the run is in progress
exit_status ==
    CASE pc = "done" -> <<0>>
      [] pc = "crashed" -> <<1>>
      [] OTHER -> <<>>

\* faulty variant of recent_entries: the entries are not filtered
recent_entries_unfiltered(all) == all

\* recent_entries = [entry for entry in feed.entries
\*                   if is_within_24_hours(entry.get('published', 'No date'))]
recent_entries(all) == SelectSeq(all, LAMBDA e : is_within_24_hours(e.published))

\* faulty variant of cap_reached: the loop stops one entry late
cap_reached_late(i) == test /\ i > MAX_ARTICLES

\* max_articles = 5 if test else None; "if max_articles and i >= max_articles"
cap_reached(i) == test /\ i >= MAX_ARTICLES

\* faulty variant of next_index: the entry is taken again
next_index_same(i) == i

\* "for i, entry in enumerate(feed.entries)": the index after i, reached by
\* "continue" and by the end of the loop body alike
next_index(i) == i + 1

\* faulty variant of batch_size: the slice articles[i:i+4]
batch_size_four(i, n) == IF i + BATCH - 1 <= n THEN BATCH - 1 ELSE n - i

\* len(articles[i:i+5]) for a list of n articles
batch_size(i, n) == IF i + BATCH <= n THEN BATCH ELSE n - i

\* the extraction log with the result of its last (the current) call set
returned(log, result) == [log EXCEPT ![Len(log)].result = result]

(***************************************************************************)
(* The initial state                                                       *)
(***************************************************************************)
RecIdle == rq = NoDate /\ rfun = "none" /\ rres = <<>>

PipeStart ==
    /\ exc = "" /\ feeds = <<>> /\ fi = 0 /\ entries = <<>> /\ ei = 0 /\ date = 0
    /\ worker = "none" /\ timedOut = FALSE /\ content = <<>>
    /\ articles = <<>> /\ ev_i = 0 /\ offset = 0 /\ indices_to_keep = <<>>
    /\ accepted = <<>> /\ dataset = <<>> /\ written = 0 /\ console = ""
    /\ fetchLog = <<>> /\ entryFailed = FALSE /\ evalLog = <<>>
    /\ loaded = FALSE /\ extractLog = <<>> /\ genLog = <<>> /\ evalCalls = 0

Init ==
    /\ now = Now0
    /\ apiKey \in BOOLEAN
    /\ feedsFile \in FeedsFiles
    /\ web \in Webs
    /\ test \in BOOLEAN
    /\ pc = "main"
    /\ PipeStart
    /\ RecIdle

(***************************************************************************)
(* __main__.py: main, up to the call of process_articles                   *)
(***************************************************************************)
\* console.print at line 88 of evaluate_questions, printed when the feed loop
\* ends and evaluate_questions is entered
entering(next_pc) == IF next_pc = "evaluate" THEN "total" ELSE console

\* process_articles line 212: the call of evaluate_questions that follows the
\* feed loop
calls_after(next_pc) == IF next_pc = "evaluate" THEN evalCalls + 1 ELSE evalCalls

Main ==
    /\ pc = "main"
    /\ IF api_key_missing
       THEN pc' = "done" /\ console' = "no_api_key"
            /\ UNCHANGED <<exc, feeds, fi, loaded>>
       ELSE LET r == load_feeds
            IN  /\ loaded' = TRUE
                /\ IF r.raised
                   THEN pc' = "crashed" /\ exc' = "KeyError"
                        /\ UNCHANGED <<feeds, fi, console>>
                   ELSE IF r.feeds = <<>>
                   THEN /\ pc' = "done"
                        /\ console' = IF feedsFile = "empty" THEN console
                                      ELSE "load_error"
                        /\ UNCHANGED <<exc, feeds, fi>>
                   ELSE pc' = "fetch" /\ feeds' = r.feeds /\ fi' = 1
                        /\ UNCHANGED <<exc, console>>
    /\ UNCHANGED <<now, apiKey, feedsFile, web, test, entries, ei, date, worker,
                   timedOut, content, articles, ev_i, offset, indices_to_keep,
                   accepted, dataset, written, fetchLog, entryFailed, evalLog>>
    /\ UNCHANGED <<extractLog, genLog, evalCalls>>
    /\ UNCHANGED recVars

(***************************************************************************)
(* process_articles: the feed loop                                         *)
(***************************************************************************)
\* fetch_feed, "if not feed.entries", the recency filter
FetchFeed ==
    /\ pc = "fetch"
    /\ \E outcome \in {"ok", "error"} :
         LET feed == fetch_feed(feeds[fi], outcome)
         IN  /\ fetchLog' = Append(fetchLog, outcome)
             /\ IF ~has_entries(feed)
                THEN pc' = "crashed" /\ exc' = "AttributeError"
                     /\ console' = "fetch_error"
                     /\ UNCHANGED <<fi, entries, ei, evalCalls>>
                ELSE IF feed.entries = <<>>
                THEN pc' = after_feed(fi + 1) /\ fi' = fi + 1
                     /\ console' = entering(after_feed(fi + 1))
                     /\ evalCalls' = calls_after(after_feed(fi + 1))
                     /\ UNCHANGED <<exc, entries, ei>>
                ELSE /\ entries' = recent_entries(feed.entries)
                     /\ ei' = 0 /\ pc' = "entry"
                     /\ UNCHANGED <<exc, fi, console, evalCalls>>
    /\ UNCHANGED <<now, apiKey, feedsFile, web, test, feeds, date, worker,
                   timedOut, content, articles, ev_i, offset, indices_to_keep,
                   accepted, dataset, written, entryFailed, evalLog>>
    /\ UNCHANGED <<loaded, extractLog, genLog>>
    /\ UNCHANGED recVars

\* the entry loop is exhausted, or "if max_articles and i >= max_articles:
\* break"; then remove_task, advance the feed task, next feed
EndFeed ==
    /\ pc = "entry"
    /\ ei >= Len(entries) \/ cap_reached(ei)
    /\ fi' = fi + 1 /\ pc' = after_feed(fi + 1)
    /\ console' = entering(after_feed(fi + 1))
    /\ evalCalls' = calls_after(after_feed(fi + 1))
    /\ entries' = <<>> /\ ei' = 0
    /\ worker' = "none" /\ timedOut' = FALSE
    /\ UNCHANGED <<now, apiKey, feedsFile, web, test, exc, feeds, date,
                   content, articles, ev_i, offset, indices_to_keep,
                   accepted, dataset, written, fetchLog, entryFailed, evalLog>>
    /\ UNCHANGED <<loaded, extractLog, genLog>>
    /\ UNCHANGED recVars

\* title, link, date = format_date(...) (outside the try), then
\* extract_article_content up to future.result(timeout=timeout)
BeginEntry ==
    /\ pc = "entry"
    /\ ei < Len(entries) /\ ~cap_reached(ei)
    /\ LET d == format_date(entries[ei + 1].published)
       IN  IF d = <<>>
           THEN pc' = "crashed" /\ exc' = "ValueError"
                /\ UNCHANGED <<date, worker, timedOut, extractLog>>
           ELSE pc' = "extract_wait" /\ date' = d[1] /\ worker' = "running"
                /\ timedOut' = FALSE /\ UNCHANGED exc
                /\ extractLog' = Append(extractLog,
                       [link |-> entries[ei + 1].link, result |-> "pending"])
    /\ UNCHANGED <<now, apiKey, feedsFile, web, test, feeds, fi, entries, ei,
                   content, articles, ev_i, offset, indices_to_keep, accepted,
                   dataset, written, console, fetchLog, entryFailed, evalLog>>
    /\ UNCHANGED <<loaded, genLog, evalCalls>>
    /\ UNCHANGED recVars

(***************************************************************************)
(* extract_article_content: the main thread waits in future.result for the *)
(* download worker, at most timeout seconds                                *)
(***************************************************************************)
\* the rest of the entry's iteration when extraction gave None: "if not
\* content: progress.update(...); continue", after the message msg was printed
SkipEntry(msg) ==
    /\ pc' = "entry" /\ ei' = next_index(ei)
    /\ content' = <<>> /\ console' = msg
    /\ entryFailed' = TRUE
    /\ extractLog' = returned(extractLog, msg)
    /\ UNCHANGED <<now, apiKey, feedsFile, web, test, exc, feeds, fi, entries,
                   date, worker, timedOut, articles, ev_i, offset,
                   indices_to_keep, accepted, dataset, written, fetchLog, evalLog>>
    /\ UNCHANGED <<loaded, genLog, evalCalls>>
    /\ UNCHANGED recVars

\* the worker thread: article.download() returns
WorkerDone ==
    /\ pc \in {"extract_wait", "executor_exit"}
    /\ worker = "running"
    /\ worker' = "done"
    /\ UNCHANGED <<now, apiKey, feedsFile, web, test, pc, exc, feeds, fi, entries,
                   ei, date, timedOut, content, articles, ev_i, offset,
                   indices_to_keep, accepted, dataset, written, console,
                   fetchLog, entryFailed, evalLog>>
    /\ UNCHANGED <<loaded, extractLog, genLog, evalCalls>>
    /\ UNCHANGED recVars

\* the worker thread: article.download() ends without a page
WorkerFail ==
    /\ pc \in {"extract_wait", "executor_exit"}
    /\ worker = "running"
    /\ worker' = "failed"
    /\ UNCHANGED <<now, apiKey, feedsFile, web, test, pc, exc, feeds, fi, entries,
                   ei, date, timedOut, content, articles, ev_i, offset,
                   indices_to_keep, accepted, dataset, written, console,
                   fetchLog, entryFailed, evalLog>>
    /\ UNCHANGED <<loaded, extractLog, genLog, evalCalls>>
    /\ UNCHANGED recVars

\* future.result returns before the timeout: the with block is left (the
\* worker has finished, shutdown does not wait), then article.parse(), strip
\* and the length test; any exception gives None
FutureResult ==
    /\ pc = "extract_wait"
    /\ worker \in {"done", "failed"}
    /\ \E parsed \in BOOLEAN :
         IF worker = "failed" \/ ~parsed
         THEN SkipEntry("extract_error")
         ELSE LET c == article_content(entries[ei + 1].body)
              IN  IF c = <<>>
                  THEN SkipEntry("too_short")
                  ELSE /\ pc' = "generate" /\ content' = c
                       /\ extractLog' = returned(extractLog, "content")
                       /\ UNCHANGED <<now, apiKey, feedsFile, web, test, exc,
                                      feeds, fi, entries, ei, date, worker,
                                      timedOut, articles, ev_i, offset,
                                      indices_to_keep, accepted, dataset,
                                      written, console, fetchLog, entryFailed,
                                      evalLog>>
                       /\ UNCHANGED <<loaded, genLog, evalCalls>>
                       /\ UNCHANGED recVars

\* future.result(timeout=timeout) raises concurrent.futures.TimeoutError: the
\* handler prints and executes "return None" inside the with block, whose
\* __exit__ calls executor.shutdown(wait=True)
TimerFires ==
    /\ pc = "extract_wait"
    /\ worker = "running"
    /\ timedOut' = TRUE /\ pc' = "executor_exit" /\ console' = "timeout"
    /\ UNCHANGED <<now, apiKey, feedsFile, web, test, exc, feeds, fi, entries, ei,
                   date, worker, content, articles, ev_i, offset,
                   indices_to_keep, accepted, dataset, written, fetchLog,
                   entryFailed, evalLog>>
    /\ UNCHANGED <<loaded, extractLog, genLog, evalCalls>>
    /\ UNCHANGED recVars

\* shutdown(wait=True) returns once the worker thread has ended; only then
\* does extract_article_content return None
ExecutorExit ==
    /\ pc = "executor_exit"
    /\ worker \in {"done", "failed"}
    /\ SkipEntry("timeout")

(***************************************************************************)
(* process_articles: generation and the appends                            *)
(***************************************************************************)
\* what generation and the append loop print: the message of the except
\* clause taken, or nothing
gen_message(reply, raised) ==
    CASE reply.kind = "empty" -> "gen_empty"
      [] reply.kind = "nonjson" -> "gen_invalid_json"
      [] reply.kind \in {"raise", "array"} -> "gen_error"
      [] reply.kind = "pairs" /\ reply.pairs # <<>> /\ ~reply.pairs[1].dict -> "gen_error"
      [] OTHER -> IF raised THEN "process_error" ELSE console

Generate ==
    /\ pc = "generate"
    /\ \E reply \in GenReplies :
         LET qa_pairs == generate_questions_and_answers(reply)
             r == append_pairs(articles, qa_pairs, 1, entries[ei + 1], date, content[1])
         IN  /\ articles' = r.articles
             /\ entryFailed' = (entryFailed \/ qa_pairs = <<>> \/ r.raised)
             /\ console' = gen_message(reply, r.raised)
             /\ genLog' = Append(genLog,
                    [link |-> entries[ei + 1].link,
                     failed |-> (qa_pairs = <<>> \/ r.raised),
                     added |-> Len(r.articles) - Len(articles)])
    /\ pc' = "entry" /\ ei' = next_index(ei) /\ content' = <<>>
    /\ UNCHANGED <<now, apiKey, feedsFile, web, test, exc, feeds, fi, entries,
                   date, worker, timedOut, ev_i, offset, indices_to_keep,
                   accepted, dataset, written, fetchLog, evalLog>>
    /\ UNCHANGED <<loaded, extractLog, evalCalls>>
    /\ UNCHANGED recVars

(***************************************************************************)
(* evaluate_questions                                                      *)
(***************************************************************************)
\* one iteration of "for i in range(0, len(articles), 5)"
EvalBatch ==
    /\ pc = "evaluate"
    /\ ev_i < Len(articles)
    /\ \E reply \in EvalReplies :
         LET size == batch_size(ev_i, Len(articles))
             new == new_indices(reply)
         IN  IF reply.kind \in EvalFailKinds
             THEN /\ indices_to_keep' = on_eval_exception(indices_to_keep)
                  /\ pc' = "select" /\ console' = "eval_error"
                  /\ evalLog' = Append(evalLog, [start |-> ev_i, size |-> size,
                                  offset |-> offset, ok |-> FALSE, got |-> <<>>])
                  /\ UNCHANGED <<ev_i, offset>>
             ELSE /\ indices_to_keep' = indices_to_keep \o to_global(new, offset)
                  /\ offset' = advance_offset(offset, new)
                  /\ ev_i' = ev_i + BATCH /\ console' = "running"
                  /\ evalLog' = Append(evalLog, [start |-> ev_i, size |-> size,
                                  offset |-> offset, ok |-> TRUE, got |-> new])
                  /\ UNCHANGED pc
    /\ UNCHANGED <<now, apiKey, feedsFile, web, test, exc, feeds, fi, entries, ei,
                   date, worker, timedOut, content, articles, accepted, dataset,
                   written, fetchLog, entryFailed>>
    /\ UNCHANGED <<loaded, extractLog, genLog, evalCalls>>
    /\ UNCHANGED recVars

\* the range is exhausted: return indices_to_keep
EvalReturn ==
    /\ pc = "evaluate"
    /\ ev_i >= Len(articles)
    /\ pc' = "select" /\ console' = "final"
    /\ UNCHANGED <<now, apiKey, feedsFile, web, test, exc, feeds, fi, entries, ei,
                   date, worker, timedOut, content, articles, ev_i, offset,
                   indices_to_keep, accepted, dataset, written, fetchLog,
                   entryFailed, evalLog>>
    /\ UNCHANGED <<loaded, extractLog, genLog, evalCalls>>
    /\ UNCHANGED recVars

\* process_articles: return [articles[i] for i in indices_to_keep]
Select ==
    /\ pc = "select"
    /\ IF \A j \in 1..Len(indices_to_keep) : py_valid(articles, indices_to_keep[j])
       THEN pc' = "save" /\ accepted' = select(articles, indices_to_keep)
            /\ UNCHANGED exc
       ELSE pc' = "crashed" /\ exc' = "IndexError" /\ UNCHANGED accepted
    /\ UNCHANGED <<now, apiKey, feedsFile, web, test, feeds, fi, entries, ei,
                   date, worker, timedOut, content, articles, ev_i, offset,
                   indices_to_keep, dataset, written, console, fetchLog,
                   entryFailed, evalLog>>
    /\ UNCHANGED <<loaded, extractLog, genLog, evalCalls>>
    /\ UNCHANGED recVars

\* main: save_dataset(articles)
SaveDataset ==
    /\ pc = "save"
    /\ dataset' = dataset_of(accepted) /\ written' = written + 1
    /\ pc' = "done" /\ console' = "saved"
    /\ UNCHANGED <<now, apiKey, feedsFile, web, test, exc, feeds, fi, entries, ei,
                   date, worker, timedOut, content, articles, ev_i, offset,
                   indices_to_keep, accepted, fetchLog, entryFailed, evalLog>>
    /\ UNCHANGED <<loaded, extractLog, genLog, evalCalls>>
    /\ UNCHANGED recVars

Next ==
    \/ Main \/ FetchFeed \/ EndFeed \/ BeginEntry
    \/ WorkerDone \/ WorkerFail \/ FutureResult \/ TimerFires \/ ExecutorExit
    \/ Generate
    \/ EvalBatch \/ EvalReturn \/ Select \/ SaveDataset

Spec == Init /\ [][Next]_vars

(***************************************************************************)
(* The recency filter on its own: every timestamp string of the harness's  *)
(* range is passed to is_within_24_hours or to is_within_7_days            *)
(***************************************************************************)
\* offsets a numeric-offset timestamp is written with
Offsets == {-5, 0, 2}

RecInputs ==
    {[form |-> f, wall |-> w, off |-> o] :
        f \in Forms,
        w \in (Now0 - WEEK_HOURS - Slack - 5)..(Now0 + Slack + 2),
        o \in Offsets}

RecInit ==
    /\ now = Now0
    /\ apiKey = FALSE /\ feedsFile = "missing" /\ web = WebThree /\ test = FALSE
    /\ pc = "idle"
    /\ PipeStart
    /\ rq \in {s \in RecInputs : s.form = "rfc822z" \/ s.off = 0}
    /\ rfun = "none" /\ rres = <<>>

CallWithin24Hours ==
    /\ rfun = "none"
    /\ rfun' = "24h" /\ rres' = <<is_within_24_hours(rq)>>
    /\ UNCHANGED <<now, rq>>
    /\ UNCHANGED pipeVars

CallWithin7Days ==
    /\ rfun = "none"
    /\ rfun' = "7d" /\ rres' = <<is_within_7_days(rq)>>
    /\ UNCHANGED <<now, rq>>
    /\ UNCHANGED pipeVars

RecNext == CallWithin24Hours \/ CallWithin7Days

SpecRecency == RecInit /\ [][RecNext]_vars

(***************************************************************************)
(* Properties                                                              *)
(***************************************************************************)
\* the position in the candidate list of a record of it (a candidate is
\* identified by its entry's link and its question)
pos_of(rec) == CHOOSE p \in 1..Len(articles) : articles[p] = rec

AllFetched == \A f \in DOMAIN fetchLog : fetchLog[f] = "ok"

\* C1: the list returned by process_articles holds the accepted candidates in
\* the relative order of the candidate list: no accepted record stands before
\* one that was appended to the candidate list earlier, whatever order the
\* evaluator's reply lists the indices in.
C1_AcceptedInCandidateOrder ==
    pc \in {"save", "done"} =>
        \A j, k \in 1..Len(accepted) :
            j < k => pos_of(accepted[j]) <= pos_of(accepted[k])

\* C2: once the request of a batch has failed (the call raised or the reply
\* did not parse), the keep-set is empty although earlier batches returned
\* indices, the failed request is the last one sent, and nothing is accepted.
C2_EvalFailClosed ==
    \A b \in DOMAIN evalLog :
        ~evalLog[b].ok =>
            /\ b = Len(evalLog)
            /\ pc # "evaluate"
            /\ indices_to_keep = <<>>
            /\ accepted = <<>>
            /\ dataset = <<>>

\* C2 witness: the second batch failed after the first had returned indices,
\* and evaluate_questions has returned.
C2_FailAfterGoodBatch ==
    /\ pc = "select"
    /\ Len(evalLog) = 2
    /\ evalLog[1].ok /\ evalLog[1].got = <<0, 2>>
    /\ ~evalLog[2].ok

\* the global indices the replies logged so far stand for under the offset
\* law: index k of batch b (counted from 0) is 5*b + k
RECURSIVE law_indices(_)
law_indices(n) ==
    IF n = 0 THEN <<>>
    ELSE law_indices(n - 1)
         \o [j \in 1..Len(evalLog[n].got) |-> BATCH * (n - 1) + evalLog[n].got[j]]

\* C3: every batch is requested with the running offset equal to its start
\* position 5*b in the candidate list, the last, partial batch included, and
\* a batch-local index k of batch b is recorded as 5*b + k.
C3_OffsetLaw ==
    /\ \A n \in DOMAIN evalLog :
          /\ evalLog[n].start = BATCH * (n - 1)
          /\ evalLog[n].offset = evalLog[n].start
    /\ pc = "evaluate" => offset = ev_i /\ ev_i = BATCH * Len(evalLog)
    /\ (\A n \in DOMAIN evalLog : evalLog[n].ok) /\ pc \in {"evaluate", "select"}
          => indices_to_keep = law_indices(Len(evalLog))

\* C3 witness: twelve candidates split 5, 5, 2; the third batch was requested
\* at offset 10 and its local index 0 recorded as 10.
C3_TwelveSplit ==
    /\ Len(articles) = 12
    /\ Len(evalLog) = 3
    /\ evalLog[1].size = 5 /\ evalLog[2].size = 5 /\ evalLog[3].size = 2
    /\ evalLog[3].offset = 10
    /\ evalLog[1].got = <<4>> /\ evalLog[2].got = <<1, 0>> /\ evalLog[3].got = <<0>>
    /\ indices_to_keep = <<4, 6, 5, 10>>

\* C4: when the timeout has fired on a download worker that has not finished,
\* extract_article_content is not held back by the worker: it can return its
\* skip signal while the worker is still running.
C4_ReturnsWithoutWaiting ==
    (timedOut /\ worker = "running" /\ pc = "executor_exit") => ENABLED ExecutorExit

\* C5: a run in which the extraction or the generation of an entry failed is
\* not aborted: it never ends in an uncaught exception (here: even when every
\* feed was fetched), so it goes on to evaluation and writing.
C5_FailedEntryRunNotAborted ==
    (entryFailed /\ AllFetched) => pc # "crashed"

\* C6: a feed whose fetch raised a network error is skipped: the run is not
\* aborted at that feed, and processing continues with the remaining feeds.
C6_FailedFetchSkipsFeed ==
    \A f \in DOMAIN fetchLog :
        fetchLog[f] = "error" => ~(pc = "crashed" /\ fi = f)

\* C7: a run started with the credential and a non-empty feed list never
\* terminates by an uncaught exception, whatever the backend replies (here:
\* even when every feed was fetched).
C7_RunNeverCrashes ==
    (apiKey /\ feedsFile = "ok" /\ feeds # <<>> /\ AllFetched) => pc # "crashed"

\* the instant a parsable timestamp string denotes, in UTC hours
instant(s) == IF s.form = "rfc822z" THEN s.wall - s.off ELSE s.wall

parsable(s) == s.form \in {"rfc822z", "rfc822gmt"}

window_of(f) == IF f = "24h" THEN DAY_HOURS ELSE WEEK_HOURS

\* C8: is_within_24_hours and is_within_7_days return true exactly for the
\* parsable timestamps strictly more recent than now minus the window: false
\* for one strictly older or exactly at now minus the window, and false for
\* one in none of the accepted formats.
C8_RecencyFilter ==
    rres # <<>> =>
        rres[1] = (parsable(rq) /\ instant(rq) > now - window_of(rfun))

\* C8 witness: a timestamp written with offset +2 that is exactly 24 hours
\* old was passed to is_within_24_hours, which returned false.
C8_BoundaryRejected ==
    /\ rfun = "24h" /\ rres = <<FALSE>>
    /\ rq.form = "rfc822z" /\ rq.off = 2
    /\ instant(rq) = now - DAY_HOURS

\* C9: content is returned only for a body whose trimmed length is at least
\* min_content_length, and every candidate carries content at least that long.
C9_MinContentLength ==
    /\ content # <<>> =>
          /\ entries[ei + 1].body.core >= MIN_CONTENT_LENGTH
          /\ len(content[1]) >= MIN_CONTENT_LENGTH
    /\ \A p \in DOMAIN articles : len(articles[p].content) >= MIN_CONTENT_LENGTH

\* C9 witness: the page of an entry was downloaded, its body has 500
\* characters of which 499 remain after trimming, and it was skipped as too
\* short.
C9_ShortBodySkipped ==
    /\ web = WebEdges /\ fi = 1 /\ pc = "entry" /\ ei = 1
    /\ len(entries[1].body) = MIN_CONTENT_LENGTH
    /\ len(strip(entries[1].body)) = MIN_CONTENT_LENGTH - 1
    /\ worker = "done" /\ ~timedOut /\ console = "too_short"
    /\ articles = <<>>

\* the scenario of C10: the feed of three entries stamped now, now-2h and
\* now-30h; each of two entries gave one candidate; the evaluator's only reply
\* kept index 0
Scenario10 ==
    /\ web = WebThree /\ fetchLog = <<"ok">>
    /\ Len(articles) = 2
    /\ articles[1].link # articles[2].link
    /\ Len(evalLog) = 1 /\ evalLog[1].ok /\ evalLog[1].got = <<0>>

\* C10: in that scenario the 24h filter leaves the first two entries, and the
\* artifact written holds exactly one record, with id 0, which is the
\* candidate of the first entry.
C10_EndToEnd ==
    /\ (web = WebThree /\ pc \in {"entry", "extract_wait", "executor_exit", "generate"})
          => entries = <<WebThree[1][1], WebThree[1][2]>>
    /\ (Scenario10 /\ pc = "done")
          => /\ written = 1
             /\ Len(dataset) = 1
             /\ dataset[1].id = 0
             /\ dataset[1].article = articles[1]
             /\ dataset[1].article.link = WebThree[1][1].link

\* C10 witness: the scenario has run to the end and the artifact is written.
C10_ScenarioDone ==
    /\ Scenario10 /\ pc = "done" /\ written = 1
    /\ articles[1].link = <<1, 1>> /\ articles[2].link = <<1, 2>>
    /\ Len(dataset) = 1

\* C11: while the LLM credential is absent the run does no work: load_feeds
\* is not called, no feed is fetched, no article is extracted, no generation
\* or evaluation request is sent and news_questions.json is not written
C11_NoCredentialNoWork ==
    ~apiKey => /\ ~loaded /\ feeds = <<>>
               /\ fetchLog = <<>>
               /\ extractLog = <<>>
               /\ genLog = <<>> /\ evalLog = <<>> /\ evalCalls = 0
               /\ written = 0 /\ dataset = <<>>
               /\ pc \in {"main", "done"}

\* a run without the credential, over a readable feed list, has ended
C11_AbortedWithoutCredential ==
    /\ ~apiKey /\ feedsFile = "ok" /\ pc = "done" /\ console = "no_api_key"

\* C12: a run that has ended for lack of the LLM credential has ended with a
\* non-zero exit status
C12_AbortExitsNonZero ==
    (~apiKey /\ exit_status # <<>>) => exit_status # <<0>>

\* C14: the records of news_questions.json are the accepted records in list
\* order, and the id of the record at position j (counted from 0) is j
C14_DenseIds ==
    written > 0 =>
        /\ Len(dataset) = Len(accepted)
        /\ \A j \in 1..Len(dataset) :
              dataset[j].id = j - 1 /\ dataset[j].article = accepted[j]

\* a written dataset of at least two records in which some record's id is not
\* its position in the candidate list
C14_IdsNotCandidatePositions ==
    /\ written = 1 /\ Len(dataset) >= 2
    /\ \E j \in 1..Len(dataset) : pos_of(dataset[j].article) - 1 # dataset[j].id

\* C15: the list returned by evaluate_questions holds positions of the
\* candidate list only, each at most once
C15_KeptArePositions ==
    pc = "select" =>
        /\ \A j \in 1..Len(indices_to_keep) :
              indices_to_keep[j] \in 0..(Len(articles) - 1)
        /\ \A j, k \in 1..Len(indices_to_keep) :
              j # k => indices_to_keep[j] # indices_to_keep[k]

\* C16: with the credential present and the feed list missing or malformed,
\* the run ends normally, having loaded no feed, fetched nothing and sent no
\* LLM request
C16_BadFeedListEmptyRun ==
    (apiKey /\ feedsFile \in {"missing", "invalid", "nokey"} /\ pc # "main") =>
        /\ pc = "done" /\ exc = ""
        /\ feeds = <<>> /\ fetchLog = <<>>
        /\ genLog = <<>> /\ evalLog = <<>>

\* the entry of the snapshot that a link leads to
entry_of(link) == web[link[1]][link[2]]

\* the links of the entries of feed f that pass the recency filter, in feed order
passing(f) ==
    LET kept == SelectSeq(web[f], LAMBDA e : is_within_24_hours(e.published))
    IN  [j \in 1..Len(kept) |-> kept[j].link]

\* the links of feed f submitted to extraction so far, in order of submission
submitted(f) ==
    LET calls == SelectSeq(extractLog, LAMBDA x : x.link[1] = f)
    IN  [j \in 1..Len(calls) |-> calls[j].link]

\* the links whose extraction returned content, in order of extraction
extracted ==
    LET calls == SelectSeq(extractLog, LAMBDA x : x.result = "content")
    IN  [j \in 1..Len(calls) |-> calls[j].link]

\* the link of every candidate a logged generation added, in order
RECURSIVE links_added(_)
links_added(log) ==
    IF log = <<>> THEN <<>>
    ELSE LET g == log[Len(log)]
         IN  links_added(SubSeq(log, 1, Len(log) - 1)) \o [k \in 1..g.added |-> g.link]

min(a, b) == IF a < b THEN a ELSE b

\* C17: the entries of a feed submitted to extraction are a prefix, in feed
\* order, of those that pass the recency filter; in test mode the prefix never
\* exceeds 5 entries, and once the feed is left it is the first 5 (or all, if
\* fewer), whatever became of each; without test mode it is all of them.  In
\* both modes alike, generation is requested for the entries whose extraction
\* returned content, in that order, and the candidate list is what those
\* requests added, in that order, each candidate carrying its entry's
\* formatted date and stripped body.
C17_TestModeCap ==
    /\ \A f \in 1..Len(web) :
          LET s == submitted(f)
              p == passing(f)
          IN  /\ Len(s) <= Len(p)
              /\ \A j \in 1..Len(s) : s[j] = p[j]
              /\ test => Len(s) <= MAX_ARTICLES
              /\ (fi > f /\ f <= Len(fetchLog) /\ fetchLog[f] = "ok") =>
                    Len(s) = IF test THEN min(Len(p), MAX_ARTICLES) ELSE Len(p)
    /\ Len(genLog) = Len(extracted) - IF pc = "generate" THEN 1 ELSE 0
    /\ \A j \in 1..Len(genLog) : genLog[j].link = extracted[j]
    /\ Len(articles) = Len(links_added(genLog))
    /\ \A j \in 1..Len(articles) :
          /\ articles[j].link = links_added(genLog)[j]
          /\ <<articles[j].date>> = format_date(entry_of(articles[j].link).published)
          /\ articles[j].content = strip(entry_of(articles[j].link).body)

\* a test-mode run over the feed of six recent entries has left the feed:
\* five entries were submitted, the first of them failed, the sixth was never
\* submitted and candidates were produced
C17_CapReachedWithFailures ==
    /\ test /\ web = WebSix /\ fi = 2
    /\ Len(submitted(1)) = MAX_ARTICLES /\ Len(passing(1)) > MAX_ARTICLES
    /\ extractLog[1].result # "content"
    /\ articles # <<>>

\* C18: a generation that failed (no usable reply, or an exception while its
\* pairs were appended) added no candidate
C18_FailedGenerationAddsNothing ==
    \A j \in 1..Len(genLog) : genLog[j].failed => genLog[j].added = 0

\* evaluate_questions is called at most once and only when every feed has
\* been processed; the file is written at most once, only after the
\* evaluation has returned, and is empty before
EvaluateAfterFeedsWriteAfterEvaluate ==
    /\ evalCalls <= 1 /\ written <= 1
    /\ evalCalls = 1 => (fi > Len(feeds) /\ Len(fetchLog) = Len(feeds))
    /\ evalLog # <<>> => evalCalls = 1
    /\ pc \in {"evaluate", "select"} => Len(articles) = Len(links_added(genLog))
    /\ written = 1 => (evalCalls = 1 /\ pc = "done")
    /\ written = 0 => dataset = <<>>

\* C19: the above, and a run that processed feeds and has ended has called
\* evaluate_questions exactly once
C19_EvaluateOnceWriteOnce ==
    /\ EvaluateAfterFeedsWriteAfterEvaluate
    /\ (pc \in {"done", "crashed"} /\ fetchLog # <<>>) => evalCalls = 1

\* C20: extraction is attempted only for entries that pass the recency
\* filter; a generation request is issued only for an entry whose extraction
\* returned content, and never for an entry whose extraction timed out, was
\* too short or raised
C20_StageGating ==
    /\ \A k \in 1..Len(extractLog) :
          /\ is_within_24_hours(entry_of(extractLog[k].link).published)
          /\ extractLog[k].result \in {"timeout", "too_short", "extract_error"} =>
                \A j \in 1..Len(genLog) : genLog[j].link # extractLog[k].link
    /\ \A j \in 1..Len(genLog) :
          \E k \in 1..Len(extractLog) :
              extractLog[k].link = genLog[j].link /\ extractLog[k].result = "content"
    /\ pc = "generate" =>
          (content # <<>> /\ extractLog[Len(extractLog)].result = "content")

\* the feed loop has ended over the snapshot with stale and undated entries:
\* one extraction was too short, one timed out, one returned content and a
\* generation request followed; the rejected entries were never extracted
C20_GatedRun ==
    /\ web = WebEdges /\ pc = "evaluate"
    /\ \E k \in 1..Len(extractLog) : extractLog[k].result = "too_short"
    /\ \E k \in 1..Len(extractLog) : extractLog[k].result = "timeout"
    /\ genLog # <<>>
    /\ \E f \in 1..Len(web) : Len(submitted(f)) < Len(web[f])

\* C21: no entry is submitted to extraction twice, no entry has two
\* generation requests and no evaluation batch has two evaluation requests,
\* however the earlier attempt ended
C21_NoRetries ==
    /\ \A j, k \in 1..Len(extractLog) :
          j # k => extractLog[j].link # extractLog[k].link
    /\ \A j, k \in 1..Len(genLog) :
          j # k => genLog[j].link # genLog[k].link
    /\ \A j, k \in 1..Len(evalLog) :
          j # k => evalLog[j].start # evalLog[k].start

\* evaluation has returned after a run in which the first entry's extraction
\* timed out, a generation failed and an evaluation request failed, and every
\* entry of both feeds was submitted to extraction
C21_FailuresNotRetried ==
    /\ web = WebFour /\ pc = "select"
    /\ Len(extractLog) = Len(web[1]) + Len(web[2])
    /\ extractLog[1].result = "timeout"
    /\ \E j \in 1..Len(genLog) : genLog[j].failed
    /\ evalLog # <<>> /\ ~evalLog[Len(evalLog)].ok

\* the positions (0-based) of the candidates sent with a logged request
batch_positions(req) == req.start .. (req.start + req.size - 1)

\* evaluate_questions has returned without a failed request
EvaluatedWithoutFailure ==
    /\ evalCalls = 1 /\ pc # "evaluate"
    /\ \A b \in 1..Len(evalLog) : evalLog[b].ok

\* C22: the b-th evaluation request (b counted from 0) carries the candidates
\* at positions 5*b .. min(5*b + 4, L - 1) and no others; when evaluation has
\* returned without a failed request every position of the candidate list is
\* in exactly one request and ceil(L / 5) requests were sent; for L = 0 no
\* request is sent and nothing is kept
C22_BatchPartition ==
    LET L == Len(articles)
    IN  /\ \A b \in 1..Len(evalLog) :
              batch_positions(evalLog[b]) =
                  (BATCH * (b - 1)) .. min(BATCH * (b - 1) + BATCH - 1, L - 1)
        /\ EvaluatedWithoutFailure =>
              /\ \A p \in 0..(L - 1) :
                    Cardinality({b \in 1..Len(evalLog) :
                                    p \in batch_positions(evalLog[b])}) = 1
              /\ Len(evalLog) = (L + BATCH - 1) \div BATCH
        /\ (evalCalls = 1 /\ pc # "evaluate" /\ L = 0) =>
              (evalLog = <<>> /\ indices_to_keep = <<>>)

\* evaluation has returned without a failure over six candidates: a full
\* batch and a batch of one
C22_SixInTwoBatches ==
    /\ EvaluatedWithoutFailure /\ Len(articles) = 6
    /\ Len(evalLog) = 2 /\ evalLog[1].size = BATCH /\ evalLog[2].size = 1

\* C23: no candidate and no accepted record has the sentinel SKIP as its
\* question
C23_NoSkipQuestion ==
    /\ \A j \in 1..Len(articles) : articles[j].question # SKIP
    /\ \A j \in 1..Len(accepted) : accepted[j].question # SKIP

\* the published strings of the snapshot
published == UNION {{web[f][j].published : j \in 1..Len(web[f])} : f \in 1..Len(web)}

\* C24: the run never ends by the ValueError of format_date: every timestamp
\* the recency filter accepts is one format_date parses, every entry of the
\* filtered list has such a timestamp, and an entry whose timestamp is not
\* parsable is never submitted to extraction
C24_FormatDateNeverRaises ==
    /\ exc # "ValueError"
    /\ \A s \in published : is_within_24_hours(s) => format_date(s) # <<>>
    /\ \A j \in 1..Len(entries) : format_date(entries[j].published) # <<>>
    /\ \A k \in 1..Len(extractLog) :
          /\ format_date(entry_of(extractLog[k].link).published) # <<>>
          /\ entry_of(extractLog[k].link).published # NoDate

\* a run over the snapshot with an undated entry has written its dataset:
\* the undated entry was dropped, the entry after it, whose timestamp only
\* the second format parses, was formatted and submitted to extraction
C24_UndatedDroppedRunCompleted ==
    /\ web = WebEdges /\ pc = "done" /\ written = 1
    /\ web[1][2].published = NoDate
    /\ web[1][3].published.form = date_formats[2]
    /\ \E k \in 1..Len(extractLog) : extractLog[k].link = web[1][3].link
    /\ \A k \in 1..Len(extractLog) : extractLog[k].link # web[1][2].link

====
